---- MODULE Spec2Model ----
(***************************************************************************)
(* Capture -> remote analysis -> display workflow of the overlay           *)
(* (src/src/App.tsx) and the inference client                              *)
(* (src/src/services/geminiService.ts).                                    *)
(*                                                                         *)
(* JavaScript runs each handler to completion, so one action is one        *)
(* handler or one continuation of an async function (the code after an     *)
(* await).  The browser, the user and the remote model are the             *)
(* environment: their answers are drawn with \E from small sets.           *)
(*                                                                         *)
(* Numbers are fixed point in hundredths (One): 0.92 is 92, 3 is 300.      *)
(***************************************************************************)
EXTENDS Integers, Sequences, FiniteSets, TLC

\* ---------------------------------------------------------------- bounds
MaxInvocations == 2     \* trigger clicks explored
MaxTracks == 2          \* tracks of one acquired stream
One == 100              \* the number 1 in hundredths

Invocations == 1..MaxInvocations
Frames == {"frameA", "frameB"}

\* ----------------------------------------------------------- JS values
Prim(k, n, s) == [kind |-> k, num |-> n, str |-> s]
Undefined == Prim("undefined", 0, "")
NoFields == [k \in {} |-> Undefined]
JSVal(k, n, s, f) == [kind |-> k, num |-> n, str |-> s, fields |-> f]
JSNull == JSVal("null", 0, "", NoFields)
JSObject(f) == JSVal("object", 0, "", f)

\* useState<string | null>(null): the absent string and the absent data URI
NULL == "<null>"
NullUrl == <<>>

\* ------------------------------------------------------------- messages
\* (the French messages of the source, written without their accents)
UnsupportedMsg == "La capture d'ecran n'est pas supportee par ce navigateur ou dans ce contexte (Iframe/Mobile)."
CancelledMsg == "Capture annulee."
ParseErrorMsg == "L'IA n'a pas pu analyser l'image correctement."
AnalysisDefaultMsg == "Erreur d'analyse."
TypeErrorMsg == "Cannot read properties of null (reading 'confidence')"
TransportMsg == "fetch failed"
PermissionDeniedMsg == "Permission denied"

\* -------------------------------------------------------- JSON texts
\* A text is a sequence of lexical tokens.
Tok(t, s, n) == [t |-> t, s |-> s, n |-> n]
LB == Tok("{", "", 0)
RB == Tok("}", "", 0)
COLON == Tok(":", "", 0)
COMMA == Tok(",", "", 0)
TStr(s) == Tok("str", s, 0)
TNum(n) == Tok("num", "", n)
TNull == Tok("null", "", 0)
TWord(s) == Tok("word", s, 0)

IsPrimTok(tok) == tok.t \in {"str", "num", "null"}
PrimOf(tok) ==
    CASE tok.t = "str" -> Prim("string", 0, tok.s)
      [] tok.t = "num" -> Prim("number", tok.n, "")
      [] OTHER -> Prim("null", 0, "")

SyntaxError == [ok |-> FALSE, value |-> JSNull]
Parsed(v) == [ok |-> TRUE, value |-> v]

\* members of an object: "key" : primitive ( , "key" : primitive )*
\* a repeated key keeps the last value, as JSON.parse does
RECURSIVE ParseMembers(_, _)
ParseMembers(toks, acc) ==
    IF Len(toks) < 3 THEN SyntaxError
    ELSE IF ~(toks[1].t = "str" /\ toks[2] = COLON /\ IsPrimTok(toks[3])) THEN SyntaxError
    ELSE LET acc2 == (toks[1].s :> PrimOf(toks[3])) @@ acc IN
         IF Len(toks) = 3 THEN Parsed(JSObject(acc2))
         ELSE IF toks[4] # COMMA THEN SyntaxError
         ELSE ParseMembers(SubSeq(toks, 5, Len(toks)), acc2)

\* JSON.parse on a text: a primitive, or a flat object; anything else throws
JSONParse(toks) ==
    IF Len(toks) = 0 THEN SyntaxError
    ELSE IF Len(toks) = 1 THEN
        IF IsPrimTok(toks[1])
        THEN Parsed(JSVal(PrimOf(toks[1]).kind, PrimOf(toks[1]).num, PrimOf(toks[1]).str, NoFields))
        ELSE SyntaxError
    ELSE IF toks[1] = LB /\ toks[Len(toks)] = RB THEN
        IF Len(toks) = 2 THEN Parsed(JSObject(NoFields))
        ELSE ParseMembers(SubSeq(toks, 2, Len(toks) - 1), NoFields)
    ELSE SyntaxError

\* ------------------------------------------------- remote response texts
FullObject(expl, col, conf) ==
    <<LB, TStr("explanation"), COLON, TStr(expl), COMMA,
          TStr("column"), COLON, TNum(col), COMMA,
          TStr("confidence"), COLON, TNum(conf), RB>>

TextEmpty == <<>>
TextNotJson == <<TWord("not"), TWord("json")>>
TextEmptyObject == <<LB, RB>>
TextNull == <<TNull>>
TextGoodHigh == FullObject("col 3 best", 3 * One, 92)
TextGoodLow == FullObject("col 1 maybe", 1 * One, 50)
TextOutOfRange == FullObject("col 0", 0, 150)

ResponseTexts ==
    { TextEmpty, TextNotJson, TextEmptyObject, TextNull,
      TextGoodHigh, TextGoodLow, TextOutOfRange }

\* what ai.models.generateContent settles with: a rejection carrying a
\* message, or a response whose text is undefined or one of the texts
Rejected(msg) == [settled |-> "rejected", hasText |-> FALSE, text |-> <<>>, message |-> msg]
Response(hasText, text) == [settled |-> "resolved", hasText |-> hasText, text |-> text, message |-> ""]
RemoteOutcomes ==
    { Rejected(TransportMsg), Rejected(""), Response(FALSE, <<>>) }
        \cup { Response(TRUE, t) : t \in ResponseTexts }

\* ------------------------------------------------------------ data URI
\* canvas.toDataURL('image/png'): "data:image/png;base64" "," payload
toDataURL(frame) == <<"data:image/png;base64", frame>>
\* base64Image.split(",")[1]
PayloadOf(dataUrl) == dataUrl[2]

\* ------------------------------------------------------ inference client
Threw(msg) == [threw |-> TRUE, message |-> msg, value |-> JSNull]
Returned(v) == [threw |-> FALSE, message |-> "", value |-> v]

\* response.text || "{}": an undefined or empty text becomes "{}"
TextOrDefault(outcome) ==
    IF outcome.hasText /\ outcome.text # TextEmpty THEN outcome.text ELSE TextEmptyObject

\* analyzeGameScreenshot once generateContent has settled: a rejection is
\* rethrown as it is (the await is outside the try), a parse failure is
\* replaced by the fixed message, any parsed value is returned as it is
analyzeGameScreenshot(outcome) ==
    IF outcome.settled = "rejected" THEN Threw(outcome.message)
    ELSE LET p == JSONParse(TextOrDefault(outcome)) IN
         IF p.ok THEN Returned(p.value) ELSE Threw(ParseErrorMsg)

\* result.confidence: reading a property of null throws a TypeError, of
\* any other value it gives the field or undefined
ReadThrows(v) == v.kind = "null"
GetField(v, key) ==
    IF v.kind = "object" /\ key \in DOMAIN v.fields THEN v.fields[key] ELSE Undefined
\* x > 0.8 for a number; undefined, null and the non-numeric strings of
\* ResponseTexts compare false
ConfettiThreshold == (8 * One) \div 10
HighConfidence(x) == x.kind = "number" /\ x.num > ConfettiThreshold

\* --------------------------------------------------------------- state
VARIABLES
    screenshot,     \* useState: data URI or NullUrl
    suggestion,     \* useState: JS value, JSNull at first
    loading,        \* useState: BOOLEAN
    error,          \* useState: string or NULL
    showResult,     \* useState: BOOLEAN
    nav,            \* the navigator of the environment
    streamTracks,   \* how many tracks the streams of this browser carry
    inv,            \* per trigger click: the async workflow it started
    lastOp          \* history: the handler that ran last

vars == <<screenshot, suggestion, loading, error, showResult, nav, streamTracks, inv, lastOp>>
env == <<nav, streamTracks>>
ui == <<screenshot, suggestion, loading, error, showResult>>

\* the two properties startCapture tests: mediaDevices && mediaDevices.getDisplayMedia,
\* and the legacy nav.getDisplayMedia
Navigators == [mediaDevicesGetDisplayMedia : BOOLEAN, getDisplayMedia : BOOLEAN]

NoResponse == Rejected("")
NoOutcome == Returned(JSNull)
Unused ==
    [pc |-> "unused", via |-> "none", tracks |-> <<>>, stops |-> 0,
     image |-> NullUrl, sent |-> "", response |-> NoResponse, result |-> NoOutcome,
     thrown |-> "", confetti |-> 0, trace |-> <<>>]

Op(name, i) == [op |-> name, i |-> i]

\* the UI state as one record
Cur ==
    [screenshot |-> screenshot, suggestion |-> suggestion, loading |-> loading,
     error |-> error, showResult |-> showResult]

Init ==
    /\ screenshot = NullUrl
    /\ suggestion = JSNull
    /\ loading = FALSE
    /\ error = NULL
    /\ showResult = FALSE
    /\ nav \in Navigators
    /\ streamTracks \in 1..MaxTracks
    /\ inv = [i \in Invocations |-> Unused]
    /\ lastOp = Op("init", 0)

\* the next trigger click gets the lowest unused slot
IsNext(i) == inv[i].pc = "unused" /\ \A j \in Invocations : j < i => inv[j].pc # "unused"

\* lines 29-33: neither mediaDevices.getDisplayMedia nor nav.getDisplayMedia
CaptureUnsupported(n) == ~n.mediaDevicesGetDisplayMedia /\ ~n.getDisplayMedia
\* line 38: the bound function that is called
GetDisplayMediaOf(n) == IF n.mediaDevicesGetDisplayMedia THEN "mediaDevices" ELSE "navigator"

\* variant: the catch forgets setLoading(false)
CaptureCatch_KeepsLoading(err) == [error |-> CancelledMsg, loading |-> TRUE]

\* catch of startCapture (lines 56-60): whatever was thrown, the same
\* message, and the loading flag is cleared
CaptureCatch(err) == [error |-> CancelledMsg, loading |-> FALSE]

\* click on the trigger button (disabled while loading): startCapture up
\* to its await, or to the end of its catch when the capability is absent
StartCaptureBody(i) ==
    /\ IsNext(i)
    /\ IF CaptureUnsupported(nav)
       THEN /\ error' = CaptureCatch(UnsupportedMsg).error
            /\ loading' = CaptureCatch(UnsupportedMsg).loading
            /\ inv' = [inv EXCEPT ![i] = [@ EXCEPT !.pc = "done", !.thrown = UnsupportedMsg,
                                                   !.trace = <<"trigger", "caught">>]]
       ELSE /\ error' = NULL
            /\ loading' = TRUE
            /\ inv' = [inv EXCEPT ![i] = [@ EXCEPT !.pc = "prompt", !.via = GetDisplayMediaOf(nav),
                                                   !.trace = <<"trigger", "getDisplayMedia">>]]
    /\ lastOp' = Op("startCapture", i)
    /\ UNCHANGED <<screenshot, suggestion, showResult, env>>

\* variant: the button is not disabled while loading
TriggerEnabled_Always == TRUE

\* disabled={loading} (line 199)
TriggerEnabled == ~loading

StartCapture(i) == TriggerEnabled /\ StartCaptureBody(i)

\* all tracks of a fresh stream are live
NewStream(n) == [k \in 1..n |-> "live"]
\* variant: only the first track is stopped
StopAll_FirstOnly(tracks) == [k \in DOMAIN tracks |-> IF k = 1 THEN "ended" ELSE tracks[k]]

\* stream.getTracks().forEach(track => track.stop())
StopAll(tracks) == [k \in DOMAIN tracks |-> "ended"]

\* the permission prompt is cancelled or refused: getDisplayMedia rejects,
\* the catch of startCapture runs
PromptRejected(i) ==
    /\ inv[i].pc = "prompt"
    /\ \E msg \in {PermissionDeniedMsg} :
         /\ error' = CaptureCatch(msg).error
         /\ loading' = CaptureCatch(msg).loading
         /\ inv' = [inv EXCEPT ![i] = [@ EXCEPT !.pc = "done", !.thrown = msg,
                                                !.trace = Append(@, "caught")]]
    /\ lastOp' = Op("promptRejected", i)
    /\ UNCHANGED <<screenshot, suggestion, showResult, env>>

\* getDisplayMedia resolves with a stream (lines 47-55): with a video
\* element the stream is attached and the metadata handler installed,
\* without one nothing more happens
PromptAccepted(i) ==
    /\ inv[i].pc = "prompt"
    /\ \E videoCurrent \in BOOLEAN :
         inv' = [inv EXCEPT ![i] = [@ EXCEPT !.pc = IF videoCurrent THEN "metadata" ELSE "done",
                                             !.tracks = NewStream(streamTracks),
                                             !.trace = Append(@, "acquired")]]
    /\ lastOp' = Op("promptAccepted", i)
    /\ UNCHANGED <<ui, env>>

\* onloadedmetadata (lines 52-54): arms the 500 ms timer
LoadedMetadata(i) ==
    /\ inv[i].pc = "metadata"
    /\ inv' = [inv EXCEPT ![i].pc = "settling"]
    /\ lastOp' = Op("loadedMetadata", i)
    /\ UNCHANGED <<ui, env>>

\* variant: the tracks are stopped before analyzeImage is called
CaptureEvents_StopFirst == <<"captured", "stopped", "requested">>

\* statement order of takeScreenshot with a 2D context: setScreenshot (line
\* 75), analyzeImage -> generateContent (line 76), track.stop() (line 80)
CaptureEvents == <<"captured", "requested", "stopped">>

\* the 500 ms timer fires: takeScreenshot(stream) (lines 63-82), and with a
\* 2D context the synchronous start of analyzeImage -> analyzeGameScreenshot
\* up to the await of generateContent (lines 84-86, 11-53).  The request is
\* issued inside the call of line 76, the tracks are stopped on line 80.
TakeScreenshot(i) ==
    /\ inv[i].pc = "settling"
    /\ \E videoCurrent \in BOOLEAN, canvasCurrent \in BOOLEAN, ctx \in BOOLEAN, frame \in Frames :
         IF videoCurrent /\ canvasCurrent
         THEN IF ctx
              THEN LET dataUrl == toDataURL(frame) IN
                   /\ screenshot' = dataUrl
                   /\ inv' = [inv EXCEPT ![i] =
                                [@ EXCEPT !.pc = "analyzing",
                                          !.image = dataUrl,
                                          !.sent = PayloadOf(dataUrl),
                                          !.tracks = StopAll(@),
                                          !.stops = @ + 1,
                                          !.trace = @ \o CaptureEvents]]
              ELSE /\ screenshot' = screenshot
                   /\ inv' = [inv EXCEPT ![i] =
                                [@ EXCEPT !.pc = "done",
                                          !.tracks = StopAll(@),
                                          !.stops = @ + 1,
                                          !.trace = Append(@, "stopped")]]
         ELSE /\ screenshot' = screenshot
              /\ inv' = [inv EXCEPT ![i].pc = "done"]
    /\ lastOp' = Op("takeScreenshot", i)
    /\ UNCHANGED <<suggestion, loading, error, showResult, env>>

\* err.message || "Erreur d'analyse."
MessageOrDefault(msg) == IF msg # "" THEN msg ELSE AnalysisDefaultMsg

\* variant: the overlay is also shown when the analysis threw
analyzeImage_ShowsOnError(r, cur) ==
    IF r.threw
    THEN [suggestion |-> cur.suggestion, showResult |-> TRUE,
          error |-> MessageOrDefault(r.message), confetti |-> 0, loading |-> FALSE,
          events |-> <<"threw", "displayed", "caught">>]
    ELSE [suggestion |-> r.value, showResult |-> TRUE,
          error |-> IF ReadThrows(r.value) THEN MessageOrDefault(TypeErrorMsg) ELSE cur.error,
          confetti |-> IF ~ReadThrows(r.value) /\ HighConfidence(GetField(r.value, "confidence"))
                       THEN 1 ELSE 0,
          loading |-> FALSE,
          events |-> IF ReadThrows(r.value) THEN <<"returned", "displayed", "caught">>
                     ELSE <<"returned", "displayed">>]

\* variant: confetti for every returned value, whatever its confidence
analyzeImage_AlwaysConfetti(r, cur) ==
    IF r.threw
    THEN [suggestion |-> cur.suggestion, showResult |-> cur.showResult,
          error |-> MessageOrDefault(r.message), confetti |-> 0, loading |-> FALSE,
          events |-> <<"threw", "caught">>]
    ELSE [suggestion |-> r.value, showResult |-> TRUE,
          error |-> IF ReadThrows(r.value) THEN MessageOrDefault(TypeErrorMsg) ELSE cur.error,
          confetti |-> IF ReadThrows(r.value) THEN 0 ELSE 1,
          loading |-> FALSE,
          events |-> IF ReadThrows(r.value) THEN <<"returned", "displayed", "caught">>
                     ELSE <<"returned", "displayed">>]

\* analyzeImage after its await (lines 86-100), r being what
\* analyzeGameScreenshot returned or threw; cur is the UI state before
analyzeImage(r, cur) ==
    IF r.threw
    THEN [suggestion |-> cur.suggestion, showResult |-> cur.showResult,
          error |-> MessageOrDefault(r.message), confetti |-> 0, loading |-> FALSE,
          events |-> <<"threw", "caught">>]
    ELSE IF ReadThrows(r.value)
    THEN [suggestion |-> r.value, showResult |-> TRUE,
          error |-> MessageOrDefault(TypeErrorMsg), confetti |-> 0, loading |-> FALSE,
          events |-> <<"returned", "displayed", "caught">>]
    ELSE [suggestion |-> r.value, showResult |-> TRUE,
          error |-> cur.error,
          confetti |-> IF HighConfidence(GetField(r.value, "confidence")) THEN 1 ELSE 0,
          loading |-> FALSE,
          events |-> <<"returned", "displayed">>]

\* generateContent settles: the rest of analyzeGameScreenshot and of
\* analyzeImage run
AnalysisReturn(i) ==
    /\ inv[i].pc = "analyzing"
    /\ \E outcome \in RemoteOutcomes :
         LET r == analyzeGameScreenshot(outcome)
             e == analyzeImage(r, Cur)
         IN /\ suggestion' = e.suggestion
            /\ showResult' = e.showResult
            /\ error' = e.error
            /\ loading' = e.loading
            /\ inv' = [inv EXCEPT ![i] =
                         [@ EXCEPT !.pc = "done",
                                   !.response = outcome,
                                   !.result = r,
                                   !.confetti = @ + e.confetti,
                                   !.trace = @ \o e.events]]
    /\ lastOp' = Op("analysisReturn", i)
    /\ UNCHANGED <<screenshot, env>>

\* variant: setScreenshot(null) is missing
closeResult_KeepsScreenshot(cur) ==
    [cur EXCEPT !.showResult = FALSE, !.suggestion = JSNull]

\* variant: the dismissal also clears the loading flag and the error
closeResult_ResetsAll(cur) ==
    [cur EXCEPT !.showResult = FALSE, !.suggestion = JSNull, !.screenshot = NullUrl,
                !.loading = FALSE, !.error = NULL]

\* closeResult (lines 103-107)
closeResult(cur) ==
    [cur EXCEPT !.showResult = FALSE, !.suggestion = JSNull, !.screenshot = NullUrl]

\* variant: the dismissal aborts the pending request and clears loading
CloseResult_CancelsPending ==
    /\ showResult
    /\ showResult' = FALSE
    /\ suggestion' = JSNull
    /\ screenshot' = NullUrl
    /\ loading' = IF \E i \in Invocations : inv[i].pc = "analyzing" THEN FALSE ELSE loading
    /\ error' = error
    /\ inv' = [i \in Invocations |->
                 IF inv[i].pc = "analyzing" THEN [inv[i] EXCEPT !.pc = "done"] ELSE inv[i]]
    /\ lastOp' = Op("closeResult", 0)
    /\ UNCHANGED env

\* click on the overlay or on its close button, rendered while showResult
CloseResult ==
    /\ showResult
    /\ LET e == closeResult(Cur) IN
         /\ showResult' = e.showResult
         /\ suggestion' = e.suggestion
         /\ screenshot' = e.screenshot
         /\ loading' = e.loading
         /\ error' = e.error
    /\ lastOp' = Op("closeResult", 0)
    /\ UNCHANGED <<env, inv>>

Next ==
    \/ \E i \in Invocations : StartCapture(i)
    \/ \E i \in Invocations : PromptRejected(i)
    \/ \E i \in Invocations : PromptAccepted(i)
    \/ \E i \in Invocations : LoadedMetadata(i)
    \/ \E i \in Invocations : TakeScreenshot(i)
    \/ \E i \in Invocations : AnalysisReturn(i)
    \/ CloseResult

Spec == Init /\ [][Next]_vars

\* ======================================================== properties
Member(seq, e) == \E k \in 1..Len(seq) : seq[k] = e
Before(seq, a, b) == \E k \in 1..Len(seq), l \in 1..Len(seq) : k < l /\ seq[k] = a /\ seq[l] = b
Count(seq, e) == Cardinality({k \in 1..Len(seq) : seq[k] = e})
AllEnded(tracks) == \A k \in DOMAIN tracks : tracks[k] = "ended"

\* C1: closeResult leaves showResult = false, suggestion = null and
\* screenshot = null: applied to any reachable UI state it yields the three
\* cleared, and the state after the handler ran has them cleared.
C1_CloseResultClears ==
    /\ LET e == closeResult(Cur) IN
         e.showResult = FALSE /\ e.suggestion = JSNull /\ e.screenshot = NullUrl
    /\ lastOp.op = "closeResult" =>
         showResult = FALSE /\ suggestion = JSNull /\ screenshot = NullUrl

\* a dismissal of a result that had a suggestion object and a screenshot
C1_Witness ==
    /\ lastOp.op = "closeResult"
    /\ \E i \in Invocations :
         /\ inv[i].image # NullUrl
         /\ ~inv[i].result.threw
         /\ inv[i].result.value.kind = "object"

\* C2: without any screen-capture capability startCapture surfaces the
\* "capture unsupported" message (not the "capture cancelled" one), never
\* issues a remote request for that trigger, and leaves loading false.
C2_UnsupportedSurfaced ==
    (lastOp.op = "startCapture" /\ CaptureUnsupported(nav)) =>
        /\ error = UnsupportedMsg
        /\ error # CancelledMsg
        /\ ~Member(inv[lastOp.i].trace, "requested")
        /\ loading = FALSE

\* C3: a response text that is missing, empty or not valid JSON makes
\* analyzeGameScreenshot fail with the parse error, and the workflow then
\* shows an error and neither a suggestion nor the result overlay.
Unparseable(outcome) ==
    /\ outcome.settled = "resolved"
    /\ \/ ~outcome.hasText
       \/ outcome.text = TextEmpty
       \/ ~JSONParse(outcome.text).ok

C3_UnparseableFails ==
    \A i \in Invocations :
        (Member(inv[i].trace, "requested") /\ inv[i].pc = "done" /\ Unparseable(inv[i].response)) =>
            /\ inv[i].result.threw
            /\ inv[i].result.message = ParseErrorMsg
            /\ ~Member(inv[i].trace, "displayed")
            /\ (lastOp = Op("analysisReturn", i) => error = ParseErrorMsg)

\* C4: whatever the remote answers, a value analyzeGameScreenshot returns
\* has explanation, column and confidence, with confidence in [0,1] and
\* column a positive integer.
MoveSuggestionOK(v) ==
    /\ v.kind = "object"
    /\ {"explanation", "column", "confidence"} \subseteq DOMAIN v.fields
    /\ v.fields["explanation"].kind = "string"
    /\ v.fields["column"].kind = "number"
    /\ v.fields["column"].num > 0
    /\ v.fields["column"].num % One = 0
    /\ v.fields["confidence"].kind = "number"
    /\ v.fields["confidence"].num >= 0
    /\ v.fields["confidence"].num <= One

C4_ReturnedIsComplete ==
    \A i \in Invocations :
        (Member(inv[i].trace, "returned") /\ ~inv[i].result.threw) =>
            MoveSuggestionOK(inv[i].result.value)

\* C5: once a frame has been captured, encoded and handed to analysis,
\* every track of that invocation's stream is ended, in that state and in
\* every later one.
C5_TracksStoppedAfterCapture ==
    \A i \in Invocations :
        Member(inv[i].trace, "captured") =>
            /\ Len(inv[i].tracks) >= 1
            /\ AllEnded(inv[i].tracks)

\* a finished workflow whose stream had more than one track
C5_Witness ==
    \E i \in Invocations :
        /\ Member(inv[i].trace, "captured")
        /\ Len(inv[i].tracks) >= 2
        /\ inv[i].pc = "done"

\* C6: a workflow that fails returns to an idle, retriable state: when no
\* invocation has a callback, prompt or request pending any more, loading
\* is false and the trigger is enabled again.
Quiescent == \A i \in Invocations : inv[i].pc \in {"unused", "done"}

C6_FailureReturnsToIdle == Quiescent => loading = FALSE

\* C7: a failure of startCapture before a stream is acquired (capability
\* absent, permission request rejected) ends with an error message and
\* loading false, leaves screenshot, suggestion and showResult as they
\* were, and that invocation has called getDisplayMedia at most once and
\* never calls it again.
FailedBeforeStream(i) == inv[i].pc = "done" /\ inv[i].tracks = <<>>

C7_FailureBeforeStream ==
    [][\A i \in Invocations :
         /\ (~FailedBeforeStream(i) /\ FailedBeforeStream(i)') =>
               /\ error' # NULL
               /\ loading' = FALSE
               /\ UNCHANGED <<screenshot, suggestion, showResult>>
               /\ Count(inv'[i].trace, "getDisplayMedia") <= 1
               /\ ~Member(inv'[i].trace, "acquired")
         /\ FailedBeforeStream(i) => inv'[i] = inv[i]]_vars

\* a permission request that was rejected while an earlier result was shown
C7_Witness ==
    \E i \in Invocations :
        /\ FailedBeforeStream(i)
        /\ lastOp = Op("promptRejected", i)
        /\ showResult
        /\ suggestion.kind = "object"

\* C8: within one invocation the frame is captured and encoded before the
\* request for that image is issued, the request returns a value before
\* the overlay is shown by that invocation, and the suggestion then held is
\* the value returned for the image of that invocation.
C8_CaptureAnalyzeDisplay ==
    \A i \in Invocations :
        /\ Member(inv[i].trace, "requested") =>
              /\ Before(inv[i].trace, "captured", "requested")
              /\ inv[i].image # NullUrl
              /\ inv[i].sent = PayloadOf(inv[i].image)
        /\ Member(inv[i].trace, "displayed") =>
              /\ Before(inv[i].trace, "requested", "returned")
              /\ Before(inv[i].trace, "returned", "displayed")
              /\ ~inv[i].result.threw
        /\ (lastOp = Op("analysisReturn", i) /\ Member(inv[i].trace, "displayed")) =>
              /\ showResult
              /\ suggestion = inv[i].result.value

\* the second invocation displays its own result for its own frame
C8_Witness ==
    /\ MaxInvocations >= 2
    /\ lastOp = Op("analysisReturn", 2)
    /\ Member(inv[2].trace, "displayed")
    /\ inv[1].image # inv[2].image
    /\ Member(inv[1].trace, "displayed")
    /\ inv[1].result.value # inv[2].result.value

\* C9: once startCapture has begun a new workflow (loading = true) the
\* previous suggestion is discarded: suggestion is null and no result is
\* shown.
C9_NewCaptureDiscardsResult == loading => (suggestion = JSNull /\ showResult = FALSE)

NumColumns == 5

C11_ColumnInRange ==
    suggestion # JSNull =>
        /\ suggestion.kind = "object"
        /\ "column" \in DOMAIN suggestion.fields
        /\ suggestion.fields["column"].kind = "number"
        /\ suggestion.fields["column"].num % One = 0
        /\ suggestion.fields["column"].num >= 1 * One
        /\ suggestion.fields["column"].num <= NumColumns * One

\* C12: an invocation fires confetti once when its analysis returned a
\* value whose confidence is a number above 0.8, and never otherwise (lower
\* confidence, no confidence, failed analysis, failed capture).
ConfidentResult(i) ==
    /\ Member(inv[i].trace, "returned")
    /\ ~inv[i].result.threw
    /\ inv[i].result.value.kind = "object"
    /\ "confidence" \in DOMAIN inv[i].result.value.fields
    /\ inv[i].result.value.fields["confidence"].kind = "number"
    /\ 10 * inv[i].result.value.fields["confidence"].num > 8 * One

C12_ConfettiIffConfident ==
    \A i \in Invocations :
        inv[i].confetti = IF ConfidentResult(i) THEN 1 ELSE 0

\* one workflow celebrated, another returned a low confidence and did not
C12_Witness ==
    \E i \in Invocations, j \in Invocations :
        /\ ConfidentResult(i) /\ inv[i].confetti = 1
        /\ Member(inv[j].trace, "returned") /\ ~inv[j].result.threw
        /\ inv[j].result.value = JSONParse(TextGoodLow).value
        /\ inv[j].confetti = 0

\* C13: a stream that was acquired has all its tracks stopped, exactly
\* once, whatever path the workflow took to its end.
C13_StreamStoppedOnEveryPath ==
    \A i \in Invocations :
        (inv[i].pc = "done" /\ Member(inv[i].trace, "acquired")) =>
            /\ AllEnded(inv[i].tracks)
            /\ inv[i].stops = 1

\* C14: with the trigger disabled while loading, at most one workflow is in
\* flight: at most one invocation has a prompt, callback or request
\* pending, at most one stream has a live track and at most one remote
\* analysis is pending.
InFlight(i) == inv[i].pc \in {"prompt", "metadata", "settling", "analyzing"}
LiveStream(i) == \E k \in DOMAIN inv[i].tracks : inv[i].tracks[k] = "live"

C14_SingleWorkflow ==
    /\ Cardinality({i \in Invocations : InFlight(i)}) <= 1
    /\ Cardinality({i \in Invocations : LiveStream(i)}) <= 1
    /\ Cardinality({i \in Invocations : inv[i].pc = "analyzing"}) <= 1
    /\ (\E i \in Invocations : InFlight(i)) => loading

\* a second workflow is analysing after the first one finished and was dismissed
C14_Witness ==
    /\ MaxInvocations >= 2
    /\ inv[2].pc = "analyzing"
    /\ Member(inv[1].trace, "displayed")
    /\ ~showResult

\* C15: loading = true and showResult = true never hold together.
C15_NeverLoadingAndShowing == ~(loading /\ showResult)

\* C16 as stated: when the remote request is issued, every track of the
\* stream has already been stopped.
C16_StoppedBeforeRequest ==
    \A i \in Invocations :
        Member(inv[i].trace, "requested") => Before(inv[i].trace, "stopped", "requested")

\* C16 amended: takeScreenshot issues the request and then stops every
\* track, in the same handler run: the request precedes the stop, and once
\* the handler has returned (the analysis is pending or over) every track
\* is stopped, once, before the remote answer is handled.
C16_StoppedInSameHandler ==
    \A i \in Invocations :
        Member(inv[i].trace, "requested") =>
            /\ Before(inv[i].trace, "captured", "requested")
            /\ Before(inv[i].trace, "requested", "stopped")
            /\ AllEnded(inv[i].tracks)
            /\ inv[i].stops = 1
            /\ Member(inv[i].trace, "returned") => Before(inv[i].trace, "stopped", "returned")
            /\ Member(inv[i].trace, "threw") => Before(inv[i].trace, "stopped", "threw")

\* a request is pending and the tracks of its stream are stopped
C16_Witness ==
    \E i \in Invocations :
        /\ inv[i].pc = "analyzing"
        /\ Len(inv[i].tracks) >= 1
        /\ AllEnded(inv[i].tracks)

\* C17: closeResult while an analysis is pending changes neither the
\* pending invocation nor the loading flag, and the return of the call then
\* writes its outcome as usual: a returned value is stored and shown, a
\* failure sets the error, and only the return clears loading.
C17_DismissDoesNotCancel ==
    [][/\ (lastOp'.op = "closeResult" /\ \E i \in Invocations : inv[i].pc = "analyzing") =>
             /\ inv' = inv
             /\ loading /\ loading'
       /\ \A i \in Invocations :
             (inv[i].pc = "analyzing" /\ inv'[i].pc = "done") =>
                 /\ lastOp' = Op("analysisReturn", i)
                 /\ loading /\ ~loading'
                 /\ IF inv'[i].result.threw
                    THEN error' # NULL /\ suggestion' = suggestion /\ showResult' = showResult
                    ELSE suggestion' = inv'[i].result.value /\ showResult']_vars

\* the result of a call is shown although the overlay was dismissed while
\* the call was pending (the dismissal cleared the screenshot of that call)
C17_Witness ==
    \E i \in Invocations :
        /\ lastOp = Op("analysisReturn", i)
        /\ Member(inv[i].trace, "displayed")
        /\ inv[i].image # NullUrl
        /\ screenshot = NullUrl
        /\ showResult
        /\ suggestion.kind = "object"

\* C18: an invocation that reached analysis ends either with the overlay
\* shown and no error, or with an error and without showing the overlay,
\* never with both.
C18_OverlayOrError ==
    \A i \in Invocations :
        (Member(inv[i].trace, "requested") /\ inv[i].pc = "done") =>
            /\ Member(inv[i].trace, "displayed") # Member(inv[i].trace, "caught")
            /\ lastOp = Op("analysisReturn", i) =>
                  IF Member(inv[i].trace, "displayed")
                  THEN showResult /\ suggestion = inv[i].result.value /\ error = NULL
                  ELSE error # NULL

\* C19: the overlay is never visible without a suggestion to render.
C19_ShownImpliesSuggestion == showResult => suggestion # JSNull

====
